---- MODULE Spec2Model ----
(***************************************************************************)
(* ParkPal (src/app.py): a Streamlit script over one remote table,         *)
(* parking_spots.  Every browser session re-runs the script top to bottom  *)
(* on each interaction; the sessions share the store and the single        *)
(* process-wide entry of the st.cache_data(ttl=10) cache around            *)
(* fetch_parking_spots.                                                    *)
(*                                                                         *)
(* Time is kept as far as the program reads it: whether the ttl of the     *)
(* cache entry has run out since the entry was written.  The two sleeps    *)
(* of the script (1 s and 0.5 s) are shorter than the ttl and end at any   *)
(* moment of it, and a session stays idle for as long as its user likes.   *)
(* Coordinates are degrees * 10000 (the form edits them with format        *)
(* "%.4f").  Text is a sequence of one-character strings.                  *)
(* strings.  A call of the decorated fetch_parking_spots (cache lookup,    *)
(* select, clean-up, cache write) is one step; every other statement that  *)
(* touches the store or the cache is a step of its own, so the runs of     *)
(* different sessions interleave between them.                             *)
(***************************************************************************)
EXTENDS Integers, Sequences, FiniteSets

\* ---------------------------------------------------------------- bounds
MaxSpots == 2          \* rows the store holds at most

Sessions == {"s1", "s2"}

\* ------------------------------------------------------ program constants
LAT_MIN == 128000      \* df['lat'] > 12.8
LAT_MAX == 133000      \* df['lat'] < 13.3
LON_MIN == 774000      \* df['lon'] > 77.4
LON_MAX == 778000      \* df['lon'] < 77.8
DEFAULT_LAT == 129716  \* default_lat = 12.9716
DEFAULT_LON == 775946  \* default_lon = 77.5946
DEFAULT_MAX_PRICE == 100   \* st.slider("Max Price", 10, 500, 100)
DEFAULT_PRICE == 50        \* st.number_input("Price", value=50)

\* A nullable value: NULL, or Some(v).
NULL == <<>>
Some(v) == <<v>>
Val(x) == x[1]

\* ------------------------------------------------------------------ text
ToLower(c) ==
  CASE c = "A" -> "a"
    [] c = "B" -> "b"
    [] OTHER -> c

\* One pattern character against one text character under re.IGNORECASE:
\* pandas' str.contains(pat, case=False) has regex=True, so "." is the
\* wildcard and a letter matches itself in either case.
CharMatches(p, c) == p = "." \/ ToLower(p) = ToLower(c)

\* re.search(pat, text, re.IGNORECASE) for a pattern of letters and dots.
StrContains(text, pat) ==
  \E i \in 0..(Len(text) - Len(pat)) :
    \A j \in 1..Len(pat) : CharMatches(pat[j], text[i + j])

\* ------------------------------------------------ fetch_parking_spots body
\* df.dropna(subset=['lat', 'lng'])
HasCoords(r) == r.lat # NULL /\ r.lng # NULL

\* df.rename(columns={'lng': 'lon'})
Renamed(r) ==
  [id |-> r.id, owner_name |-> r.owner_name, address |-> r.address,
   price |-> r.price, lat |-> r.lat, lon |-> r.lng,
   is_available |-> r.is_available]

InBoxMutant(r) ==
  /\ Val(r.lat) >= LAT_MIN /\ Val(r.lat) < LAT_MAX
  /\ Val(r.lon) > LON_MIN /\ Val(r.lon) < LON_MAX

\* the geofence mask of lines 42-45
InBox(r) ==
  /\ Val(r.lat) > LAT_MIN /\ Val(r.lat) < LAT_MAX
  /\ Val(r.lon) > LON_MIN /\ Val(r.lon) < LON_MAX

RECURSIVE MapRename(_)
MapRename(rows) ==
  IF rows = <<>> THEN <<>>
  ELSE <<Renamed(Head(rows))>> \o MapRename(Tail(rows))

\* What the function body returns for the rows the select answered.
CleanAndFilter(data) ==
  IF data = <<>> THEN <<>>
  ELSE SelectSeq(MapRename(SelectSeq(data, HasCoords)), InBox)

\* ------------------------------------------------------------ get_lat_lon
\* The outcome of geolocator.geocode: it raised, it found nothing, or it
\* returned a location.
GetLatLon(outcome) ==
  IF outcome.kind = "loc" THEN <<Some(outcome.lat), Some(outcome.lon)>>
  ELSE <<NULL, NULL>>

\* Python truth of found_lat: None and 0.0 are false.
Truthy(x) == x # NULL /\ Val(x) # 0

PrefillMutant(found) == found

\* default_lat, default_lon after lines 90-98
Prefill(found) ==
  IF Truthy(found[1]) THEN found ELSE <<Some(DEFAULT_LAT), Some(DEFAULT_LON)>>

\* new_spot of lines 107-110
NewSpot(owner, addr, price, lat, lon) ==
  [owner_name |-> owner, address |-> addr, price |-> price,
   lat |-> lat, lng |-> lon, is_available |-> TRUE]

\* The store assigns the id on insert.
Inserted(rows, rec) ==
  Append(rows,
    [id |-> Len(rows) + 1, owner_name |-> rec.owner_name,
     address |-> rec.address, price |-> rec.price, lat |-> rec.lat,
     lng |-> rec.lng, is_available |-> rec.is_available])

\* -------------------------------------------------------------- book_spot
BookedRowMutant(r) == [r EXCEPT !.is_available = ~r.is_available]

BookedRow(r) == [r EXCEPT !.is_available = FALSE]

\* update({"is_available": False}).eq("id", spot_id)
Updated(rows, spot_id) ==
  [i \in 1..Len(rows) |->
     IF rows[i].id = spot_id THEN BookedRow(rows[i]) ELSE rows[i]]

\* ------------------------------------------------------- filtering logic
IsAvailableMutant(r) == TRUE

\* df['is_available'] == True
IsAvailable(r) == r.is_available = TRUE

\* lines 135-142
FilterView(frame, ceiling, query) ==
  LET avail == SelectSeq(frame, IsAvailable)
      cheap == SelectSeq(avail, LAMBDA r : r.price <= ceiling)
  IN  IF query # <<>>
        THEN SelectSeq(cheap, LAMBDA r : StrContains(r.address, query))
        ELSE cheap

Ids(rows) == {rows[i].id : i \in 1..Len(rows)}

\* ------------------------------------------------------------------ state
VARIABLES
  store,         \* the rows of table parking_spots, in the store's order
  cache,         \* the single entry of the cache of fetch_parking_spots
  fresh,         \* less than the ttl has passed since the entry was written
  pc,            \* where each session's script run stands
  df,            \* df of line 120: what the session's last read returned
  filtered,      \* filtered_df: the rows on the session's map and list
  search_query,  \* the search box of each session
  max_price,     \* the price slider of each session
  clicked,       \* the spot whose Book button the session pressed, or 0
  crashed,       \* the session's run ended in an uncaught exception
  listing,       \* the listing run's locals: found coordinates, new_spot
  \* observations of the history, read by the properties only
  lastCall,      \* the latest call of fetch_parking_spots, as it returns
  clearedSince,  \* fetch_parking_spots.clear() ran since that call
  fillFailed,    \* the latest select raised
  pending,       \* spots booked and invalidated since the latest call
  staleIds,      \* spots inserted into a live cache window, not yet re-read
  invalidated,   \* spots whose booking handler has cleared the cache
  seenInval      \* per session: `invalidated` when its df was read

vars ==
  <<store, cache, fresh, pc, df, filtered, search_query, max_price, clicked,
    crashed, listing, lastCall, clearedSince, fillFailed, pending,
    staleIds, invalidated, seenInval>>

ghosts ==
  <<clearedSince, fillFailed, pending, staleIds, invalidated, seenInval>>

\* --------------------------------------------------------------- inputs
Chars == {"a", "A", "b", "B", "."}

\* what an owner types into the address box ("" leaves the geocoder alone)
AddrInputs == {<<"a", "B">>}
PriceInputs == {DEFAULT_PRICE}

\* what geolocator.geocode does with "<address>, Bangalore"
GeoOutcomes ==
  {[kind |-> "none"],
   [kind |-> "loc", lat |-> 129784, lon |-> 776408]}

\* what the owner types over the pre-filled coordinate boxes (NULL: nothing)
Edits == {[lat |-> NULL, lon |-> NULL]}

\* what a renter types into the search box and sets the slider to
Queries == {<<>>}
Ceilings == {DEFAULT_MAX_PRICE}

\* rows that may be in the table when the process starts
SeedRows ==
  {[owner_name |-> "seed", address |-> <<"a", "B">>, price |-> DEFAULT_PRICE,
    lat |-> Some(DEFAULT_LAT), lng |-> Some(DEFAULT_LON),
    is_available |-> TRUE],
   [owner_name |-> "seed", address |-> <<"b">>, price |-> DEFAULT_PRICE,
    lat |-> NULL, lng |-> Some(DEFAULT_LON), is_available |-> TRUE]}

RECURSIVE InsertAll(_, _)
InsertAll(rows, recs) ==
  IF recs = <<>> THEN rows
  ELSE InsertAll(Inserted(rows, Head(recs)), Tail(recs))

SeqsUpTo(S, n) == UNION {[1..k -> S] : k \in 0..n}

InitStores == {InsertAll(<<>>, recs) : recs \in SeqsUpTo(SeedRows, 1)}

NoListing == [kind |-> "none"]
NoCall ==
  [caller |-> "none", selected |-> FALSE, failed |-> FALSE, repeat |-> FALSE,
   same |-> FALSE, afterFailure |-> FALSE, booked |-> {},
   bookedWithin |-> FALSE, stale |-> {}, listed |-> 0]

\* The state every specification starts from, but for the store.
InitRest ==
  /\ cache = [filled |-> FALSE, value |-> <<>>]
  /\ fresh = FALSE
  /\ pc = [s \in Sessions |-> "fetch"]
  /\ df = [s \in Sessions |-> <<>>]
  /\ filtered = [s \in Sessions |-> <<>>]
  /\ clicked = [s \in Sessions |-> 0]
  /\ crashed = [s \in Sessions |-> FALSE]
  /\ listing = [s \in Sessions |-> NoListing]
  /\ lastCall = NoCall
  /\ clearedSince = FALSE
  /\ fillFailed = FALSE
  /\ pending = {}
  /\ staleIds = {}
  /\ invalidated = {}
  /\ seenInval = [s \in Sessions |-> {}]

Init ==
  /\ store \in InitStores
  /\ search_query = [s \in Sessions |-> <<>>]
  /\ max_price = [s \in Sessions |-> DEFAULT_MAX_PRICE]
  /\ InitRest

\* ---------------------------------------------------------------- cache
IsHitMutant == FALSE

\* The entry is there and younger than the ttl.
IsHit == cache.filled /\ fresh

FailedEntryMutant == cache

\* The entry after the select raised: the empty frame of line 27 is the
\* function's return value, and the decorator stores every return value.
FailedEntry == [filled |-> TRUE, value |-> <<>>]

ClearedMutant == cache

\* fetch_parking_spots.clear()
Cleared == [filled |-> FALSE, value |-> <<>>]

\* What lastCall tells of a call is kept until the next step of any session;
\* after that only the caller is remembered.
Forget == lastCall' = [NoCall EXCEPT !.caller = lastCall.caller]

\* ------------------------------------------------- the main area, line 120 on
\* Everything from the return of fetch_parking_spots() to the end of the
\* rendering, in session s.  The search box and the slider are created only
\* under `if not df.empty` (lines 122-131); a run that does not create a
\* widget drops its value, so they are back at their defaults afterwards.
\* st.button(key="btn_<id>") answers True in the run its click started, if
\* that run draws the button at all (line 160).
Returned(s, ret, selected, failed) ==
  LET q   == IF ret = <<>> THEN <<>> ELSE search_query[s]
      p   == IF ret = <<>> THEN DEFAULT_MAX_PRICE ELSE max_price[s]
      vis == IF ret = <<>> THEN <<>> ELSE FilterView(ret, p, q)
  IN  /\ df' = [df EXCEPT ![s] = ret]
      /\ search_query' = [search_query EXCEPT ![s] = q]
      /\ max_price' = [max_price EXCEPT ![s] = p]
      /\ filtered' = [filtered EXCEPT ![s] = vis]
      /\ IF clicked[s] \in Ids(vis)
           THEN pc' = [pc EXCEPT ![s] = "book"] /\ clicked' = clicked
           ELSE /\ pc' = [pc EXCEPT ![s] = "idle"]
                /\ clicked' = [clicked EXCEPT ![s] = 0]
      /\ listing' = [listing EXCEPT ![s] = NoListing]
      /\ lastCall' =
           LET rep == lastCall.caller # "none" /\ ~clearedSince /\ fresh
           IN  [caller |-> s, selected |-> selected, failed |-> failed,
                repeat |-> rep,
                same |-> rep /\ ret = df[lastCall.caller],
                afterFailure |-> rep /\ fillFailed,
                booked |-> pending,
                bookedWithin |-> pending # {} /\ fresh,
                stale |-> IF rep THEN staleIds ELSE {},
                listed |-> IF listing[s] # NoListing /\ listing[s].ok
                             THEN listing[s].id ELSE 0]
      /\ clearedSince' = FALSE
      /\ pending' = {}
      /\ fillFailed' = IF selected THEN failed ELSE fillFailed
      /\ staleIds' = IF selected THEN {} ELSE staleIds
      /\ seenInval' = [seenInval EXCEPT ![s] = invalidated]
      /\ UNCHANGED <<store, crashed, invalidated>>

\* df = fetch_parking_spots(): the cached value, or the function body run
\* against the store (the select answers, or raises) and its result cached.
Fetch(s) ==
  /\ pc[s] = "fetch"
  /\ \/ /\ IsHit
        /\ UNCHANGED <<cache, fresh>>
        /\ Returned(s, cache.value, FALSE, FALSE)
     \/ /\ ~IsHit
        /\ cache' = [filled |-> TRUE, value |-> CleanAndFilter(store)]
        /\ fresh' = TRUE
        /\ Returned(s, CleanAndFilter(store), TRUE, FALSE)
     \/ /\ ~IsHit
        /\ cache' = FailedEntry
        /\ fresh' = TRUE
        /\ Returned(s, <<>>, TRUE, TRUE)

\* ------------------------------------------------------- the booking handler
BookChecked(s) ==
  /\ pc[s] = "book"
  /\ \/ /\ \E i \in 1..Len(store) :
               store[i].id = clicked[s] /\ store[i].is_available
        /\ store' = Updated(store, clicked[s])
        /\ pc' = [pc EXCEPT ![s] = "clear"]
        /\ UNCHANGED <<clicked, crashed>>
     \/ /\ pc' = [pc EXCEPT ![s] = "idle"]
        /\ clicked' = [clicked EXCEPT ![s] = 0]
        /\ UNCHANGED <<store, crashed>>
  /\ UNCHANGED <<cache, fresh, df, filtered, search_query, max_price,
                 listing, ghosts>>
  /\ Forget

\* book_spot(spot['id']) of line 161: the update is written whatever the
\* row holds; when the call raises nothing catches it and the run ends.
Book(s) ==
  /\ pc[s] = "book"
  /\ \/ /\ store' = Updated(store, clicked[s])
        /\ pc' = [pc EXCEPT ![s] = "clear"]
        /\ UNCHANGED <<clicked, crashed>>
     \/ /\ pc' = [pc EXCEPT ![s] = "idle"]
        /\ clicked' = [clicked EXCEPT ![s] = 0]
        /\ crashed' = [crashed EXCEPT ![s] = TRUE]
        /\ UNCHANGED store
  /\ UNCHANGED <<cache, fresh, df, filtered, search_query, max_price,
                 listing, ghosts>>
  /\ Forget

\* st.success("Booked!"), fetch_parking_spots.clear(), then time.sleep(0.5)
Clear(s) ==
  /\ pc[s] = "clear"
  /\ cache' = Cleared
  /\ pc' = [pc EXCEPT ![s] = "sleep"]
  /\ clearedSince' = TRUE
  /\ pending' = pending \cup {clicked[s]}
  /\ invalidated' = invalidated \cup {clicked[s]}
  /\ staleIds' = {}
  /\ UNCHANGED <<store, fresh, df, filtered, search_query, max_price, clicked,
                 crashed, listing, fillFailed, seenInval>>
  /\ Forget

\* ------------------------------------------------------- the listing form
AfterAddSpotMutant(s, success) ==
  /\ pc' = [pc EXCEPT ![s] = IF success THEN "sleep" ELSE "fetch"]
  /\ cache' = IF success THEN Cleared ELSE cache

\* lines 112-117: on success the message, time.sleep(1) and st.rerun(); on
\* failure the error message, and the run goes on to the main area.
AfterAddSpot(s, success) ==
  /\ pc' = [pc EXCEPT ![s] = IF success THEN "sleep" ELSE "fetch"]
  /\ UNCHANGED cache

\* The owner fills the form and presses "List Spot"; the run this starts
\* executes lines 84-111 with that input.
ListSpot(s, addr, price, geo, edit, success) ==
  /\ pc[s] = "idle"
  /\ success => Len(store) < MaxSpots
  /\ LET found == IF addr # <<>> THEN GetLatLon(geo) ELSE <<NULL, NULL>>
         pre   == Prefill(found)
         lat   == IF edit.lat # NULL THEN edit.lat ELSE pre[1]
         lon   == IF edit.lon # NULL THEN edit.lon ELSE pre[2]
         rec   == NewSpot("o", addr, price, lat, lon)
     IN  /\ store' = IF success THEN Inserted(store, rec) ELSE store
         /\ listing' = [listing EXCEPT ![s] =
              [kind |-> "submitted", asked |-> addr # <<>>, geo |-> geo,
               found |-> found, edit |-> edit, rec |-> rec, ok |-> success,
               id |-> IF success THEN Len(store) + 1 ELSE 0]]
         /\ staleIds' =
              IF success /\ lastCall.caller # "none" /\ ~clearedSince
                 /\ fresh
                THEN staleIds \cup {Len(store) + 1} ELSE staleIds
  /\ AfterAddSpot(s, success)
  /\ crashed' = [crashed EXCEPT ![s] = FALSE]
  /\ UNCHANGED <<fresh, df, filtered, search_query, max_price, clicked,
                 clearedSince, fillFailed, pending, invalidated, seenInval>>
  /\ Forget

\* ------------------------------------------------------- the renter's events
\* A new search text or slider position (the widgets exist only when the
\* last read was not empty), or a reload: a run without a submit or click.
Rerun(s, q, p) ==
  /\ pc[s] = "idle"
  /\ df[s] = <<>> => q = search_query[s] /\ p = max_price[s]
  /\ search_query' = [search_query EXCEPT ![s] = q]
  /\ max_price' = [max_price EXCEPT ![s] = p]
  /\ pc' = [pc EXCEPT ![s] = "fetch"]
  /\ crashed' = [crashed EXCEPT ![s] = FALSE]
  /\ UNCHANGED <<store, cache, fresh, df, filtered, clicked, listing,
                 ghosts>>
  /\ Forget

\* The renter presses the Book button of a row on the screen.
Click(s, id) ==
  /\ pc[s] = "idle"
  /\ id \in Ids(filtered[s])
  /\ clicked' = [clicked EXCEPT ![s] = id]
  /\ pc' = [pc EXCEPT ![s] = "fetch"]
  /\ crashed' = [crashed EXCEPT ![s] = FALSE]
  /\ UNCHANGED <<store, cache, fresh, df, filtered, search_query, max_price,
                 listing, ghosts>>
  /\ Forget

\* ------------------------------------------------------------------ time
\* time.sleep(1) of line 114 or time.sleep(0.5) of line 165 is over and
\* st.rerun() starts a new run, nothing submitted or clicked.
Wake(s) ==
  /\ pc[s] = "sleep"
  /\ pc' = [pc EXCEPT ![s] = "fetch"]
  /\ clicked' = [clicked EXCEPT ![s] = 0]
  /\ UNCHANGED <<store, cache, fresh, df, filtered, search_query, max_price,
                 crashed, listing, ghosts>>
  /\ Forget

\* The ttl of line 20 (10 seconds) has run out since the entry was written.
Expire ==
  /\ fresh
  /\ fresh' = FALSE
  /\ UNCHANGED <<store, cache, pc, df, filtered, search_query, max_price,
                 clicked, crashed, listing, ghosts>>
  /\ Forget

Next ==
  \/ \E s \in Sessions : Fetch(s)
  \/ \E s \in Sessions : Book(s)
  \/ \E s \in Sessions : Clear(s)
  \/ \E s \in Sessions, addr \in AddrInputs, price \in PriceInputs,
        geo \in GeoOutcomes, edit \in Edits, success \in BOOLEAN :
       ListSpot(s, addr, price, geo, edit, success)
  \/ \E s \in Sessions, q \in Queries, p \in Ceilings : Rerun(s, q, p)
  \/ \E s \in Sessions, id \in 1..MaxSpots : Click(s, id)
  \/ \E s \in Sessions : Wake(s)
  \/ Expire

Spec == Init /\ [][Next]_vars

\* ------------------------------------------- the read path on its own
FetchRows == 2         \* rows of the stores the read path is tried on

FetchLats == {NULL, Some(LAT_MIN), Some(DEFAULT_LAT), Some(LAT_MAX)}
FetchLons == {NULL, Some(LON_MIN), Some(DEFAULT_LON), Some(LON_MAX)}

FetchRecs ==
  {[owner_name |-> "seed", address |-> <<"a">>, price |-> DEFAULT_PRICE,
    lat |-> la, lng |-> lo, is_available |-> TRUE] :
     la \in FetchLats, lo \in FetchLons}

InitFetch ==
  /\ store \in {InsertAll(<<>>, recs) : recs \in SeqsUpTo(FetchRecs, FetchRows)}
  /\ search_query = [s \in Sessions |-> <<>>]
  /\ max_price = [s \in Sessions |-> DEFAULT_MAX_PRICE]
  /\ InitRest

NextFetch ==
  \/ \E s \in Sessions : Fetch(s)
  \/ Expire

SpecFetch == InitFetch /\ [][NextFetch]_vars

\* --------------------------------------------- the search view on its own
FilterRows == 2        \* rows of the stores the search view is tried on
MaxQueryLen == 2       \* characters of the search texts tried

FilterAddrs == {<<"a", "B">>, <<"b", "a">>, <<"B">>}
FilterPrices == {40, DEFAULT_MAX_PRICE, 120}
FilterCeilings == {40, DEFAULT_MAX_PRICE}
FilterQueries == SeqsUpTo(Chars, MaxQueryLen)

FilterRecs ==
  {[owner_name |-> "seed", address |-> a, price |-> pr,
    lat |-> Some(DEFAULT_LAT), lng |-> Some(DEFAULT_LON),
    is_available |-> av] :
     a \in FilterAddrs, pr \in FilterPrices, av \in BOOLEAN}

InitFilter ==
  /\ store \in {InsertAll(<<>>, recs) : recs \in SeqsUpTo(FilterRecs, FilterRows)}
  /\ search_query = [s \in Sessions |-> <<>>]
  /\ max_price = [s \in Sessions |-> DEFAULT_MAX_PRICE]
  /\ InitRest

NextFilter ==
  \/ Fetch("s1")
  \/ \E q \in FilterQueries, p \in FilterCeilings : Rerun("s1", q, p)

SpecFilter == InitFilter /\ [][NextFilter]_vars

\* -------------------------------------------- the listing form on its own
ListingAddrs == {<<>>, <<"a", "B">>}
ListingGeo == GeoOutcomes \cup {[kind |-> "raise"]}
ListingEdits ==
  Edits \cup {[lat |-> Some(LAT_MIN), lon |-> NULL],
              [lat |-> NULL, lon |-> Some(LON_MAX)]}

InitListing ==
  /\ store = <<>>
  /\ search_query = [s \in Sessions |-> <<>>]
  /\ max_price = [s \in Sessions |-> DEFAULT_MAX_PRICE]
  /\ InitRest

NextListing ==
  \/ \E addr \in ListingAddrs, price \in PriceInputs, geo \in ListingGeo,
        edit \in ListingEdits, success \in BOOLEAN :
       ListSpot("s1", addr, price, geo, edit, success)
  \/ Wake("s1")
  \/ Fetch("s1")
  \/ Expire

SpecListing == InitListing /\ [][NextListing]_vars

\* ============================================================== properties
RowOf(rows, id) == CHOOSE r \in {rows[i] : i \in 1..Len(rows)} : r.id = id
PosOf(rows, id) == CHOOSE i \in 1..Len(rows) : rows[i].id = id
Caller == lastCall.caller

\* out holds exactly the rows of inp (ids unique) that Keep accepts, each
\* as Shape shows it, in the order inp holds them.
ExactlyKept(out, inp, Keep(_), Shape(_)) ==
  /\ Ids(out) = {inp[i].id : i \in {j \in 1..Len(inp) : Keep(inp[j])}}
  /\ \A k \in 1..Len(out) : out[k] = Shape(RowOf(inp, out[k].id))
  /\ \A k1, k2 \in 1..Len(out) :
       k1 < k2 => PosOf(inp, out[k1].id) < PosOf(inp, out[k2].id)

C2_SecondCallCached ==
  lastCall.repeat => lastCall.same /\ ~lastCall.selected

\* such a call, returning something else than the store now holds
C2_Witness ==
  /\ lastCall.repeat
  /\ df[Caller] # CleanAndFilter(store)
  /\ df[Caller] # <<>>

Displayable(r) ==
  /\ r.lat # NULL /\ r.lng # NULL
  /\ LAT_MIN < Val(r.lat) /\ Val(r.lat) < LAT_MAX
  /\ LON_MIN < Val(r.lng) /\ Val(r.lng) < LON_MAX

\* C3: a call that misses the cache and whose select answers returns
\* exactly the stored rows with both coordinates present and strictly
\* inside the box, in the store's order, and leaves the store as it was.
C3_FetchKeepsDisplayable ==
  [][lastCall'.selected /\ ~lastCall'.failed =>
       /\ ExactlyKept(df'[lastCall'.caller], store, Displayable, Renamed)
       /\ store' = store]_vars

\* a read that dropped a row on the edge of the box and one without a
\* coordinate, both still stored
C3_Witness ==
  /\ lastCall.selected /\ ~lastCall.failed
  /\ Len(store) = 2 /\ df[Caller] = <<>>
  /\ store[1].lat = Some(LAT_MIN) /\ store[1].lng = Some(DEFAULT_LON)
  /\ store[2].lat = NULL

\* the search text is somewhere in the address, letter case aside
PlainContains(text, sub) ==
  \E i \in 0..(Len(text) - Len(sub)) :
    \A j \in 1..Len(sub) : ToLower(sub[j]) = ToLower(text[i + j])

Visible(r, ceiling, query) ==
  /\ r.is_available = TRUE
  /\ r.price <= ceiling
  /\ query # <<>> => PlainContains(r.address, query)

\* C4: the rows on the screen are exactly the rows of df that are
\* available, cost no more than the ceiling and, when a search text is
\* set, hold it as a case-insensitive substring of the address; in order.
C4_VisibleSubset ==
  \A s \in Sessions :
    pc[s] = "idle" /\ df[s] # <<>> =>
      ExactlyKept(filtered[s], df[s],
                  LAMBDA r : Visible(r, max_price[s], search_query[s]),
                  LAMBDA r : r)

\* C5: no step takes a row out of the store or changes its id, no step
\* makes an unavailable row available, and every row a step adds is
\* available.
C5_AvailabilityMonotone ==
  [][/\ Len(store') >= Len(store)
     /\ \A i \in 1..Len(store) :
          /\ store'[i].id = store[i].id
          /\ ~store[i].is_available => ~store'[i].is_available
     /\ \A i \in (Len(store) + 1)..Len(store') : store'[i].is_available
    ]_vars

\* a spot listed through the form and booked since
C5_Witness ==
  \E i \in 1..Len(store) :
    store[i].owner_name = "o" /\ ~store[i].is_available

C7_ListingRecord ==
  \A s \in Sessions :
    listing[s] # NoListing =>
      LET l == listing[s] IN
      /\ l.rec.is_available = TRUE
      /\ l.rec.lat \in
           {Some(DEFAULT_LAT)}
             \cup (IF l.asked /\ l.geo.kind = "loc"
                     THEN {Some(l.geo.lat)} ELSE {})
             \cup (IF l.edit.lat # NULL THEN {l.edit.lat} ELSE {})
      /\ l.rec.lng \in
           {Some(DEFAULT_LON)}
             \cup (IF l.asked /\ l.geo.kind = "loc"
                     THEN {Some(l.geo.lon)} ELSE {})
             \cup (IF l.edit.lon # NULL THEN {l.edit.lon} ELSE {})
      /\ l.ok => store[l.id].lat = l.rec.lat /\ store[l.id].lng = l.rec.lng

\* a listing stored although the lookup raised, at the default coordinates
C7_Witness ==
  \E s \in Sessions :
    /\ listing[s] # NoListing
    /\ listing[s].asked /\ listing[s].geo.kind = "raise" /\ listing[s].ok
    /\ listing[s].edit.lat = NULL /\ listing[s].edit.lon = NULL
    /\ store[listing[s].id].lat = Some(DEFAULT_LAT)
    /\ store[listing[s].id].is_available = TRUE

\* C8: a run that reaches book_spot either dies in the update call or goes
\* on to the confirmation with the row unavailable; no booking is turned
\* away because the row was unavailable already.
C8_NoBookingRejected ==
  [][\A s \in Sessions :
       pc[s] = "book" /\ pc'[s] # "book" =>
         \/ crashed'[s]
         \/ /\ pc'[s] = "clear"
            /\ \A i \in 1..Len(store') :
                 store'[i].id = clicked[s] => ~store'[i].is_available
    ]_vars

\* both sessions past book_spot for the same spot, both confirmed
C8_Witness ==
  /\ \A s \in Sessions : pc[s] \in {"clear", "sleep"} /\ clicked[s] # 0
  /\ clicked["s1"] = clicked["s2"]
  /\ ~RowOf(store, clicked["s1"]).is_available

\* C9: a call whose select raised returns the empty frame, and so does,
\* without a select, every call within the ttl of the entry that call
\* wrote, as long as nothing cleared it.
C9_FailureIsCached ==
  /\ lastCall.failed => df[Caller] = <<>> /\ ~crashed[Caller]
  /\ lastCall.afterFailure => df[Caller] = <<>> /\ ~lastCall.selected

\* such a call while the store holds a spot to display
C9_Witness ==
  /\ lastCall.afterFailure
  /\ CleanAndFilter(store) # <<>>

\* C10: a call within the ttl of an entry written before a listing, with
\* no clear() since, sends no select and returns rows without the listed
\* spot, which the store holds.
C10_ListingNotInvalidating ==
  lastCall.stale # {} =>
    /\ ~lastCall.selected
    /\ \A id \in lastCall.stale :
         id \notin Ids(df[Caller]) /\ id \in Ids(store)

\* the read of the refresh after the session's own listing, the spot being
\* one the read path would display
C10_Witness ==
  /\ lastCall.listed # 0
  /\ lastCall.listed \in lastCall.stale
  /\ lastCall.listed \in Ids(CleanAndFilter(store))

====
